---- MODULE Spec2Model ----
(***************************************************************************)
(* Gene-record validation and create / update / delete orchestration of    *)
(* the genomics browser: tp7.verification_data_gene and tp7.edition_gene   *)
(* over the storage calls of sql_requests, and the POST / DELETE mapping   *)
(* of tp4.api_edition_gene.                                                *)
(*                                                                         *)
(* Spec runs one call at a time over small enumerated payloads, SpecBulk   *)
(* posts generated batches of up to MaxBulkLen records, SpecOwned is Spec  *)
(* on a store whose gene has a transcript, and SpecConc interleaves the    *)
(* storage calls of calls made in parallel.                                *)
(*                                                                         *)
(* A JSON value is a record [t |-> <python type name>, v |-> <integer>]:   *)
(* an int n is ("int", n), the float n.0 is ("float", n), False / True are *)
(* ("bool", 0 / 1), None is ("NoneType", 0) and a string is ("str", k), k  *)
(* naming the string.  A payload (a python dict) is a function from the    *)
(* keys it holds to values.                                                *)
(***************************************************************************)
EXTENDS Integers, Sequences, FiniteSets, TLC

VARIABLES genes, prev, op, resp, log, http, last, transcripts, procs

vars == <<genes, prev, op, resp, log, http, last, transcripts, procs>>

(* ------------------------------ bounds --------------------------------- *)

\* gene ids 1..NumIds are used by the single-record requests
NumIds == 2
\* coordinates of the enumerated payloads range over -1..MaxCoord
MaxCoord == 1
\* number of distinct chromosome / band / name texts
NumVariants == 2
\* unrecognized keys a payload may carry
MaxExtra == 3
\* longest batch of arbitrary payloads
MaxBatchLen == 2
\* a request's k-th storage call (k in 1..MaxFault) may be made to fail
MaxFault == 3
\* longest generated batch of the bulk specification
MaxBulkLen == 250
\* position of the invalid record in a generated batch
BadAt == 120
\* a generated batch's k-th bulk insert (k in 1..MaxChunkFault) may fail
MaxChunkFault == 3
\* requests that run in parallel
NumProcs == 2
\* position of a record that repeats the id of the first record of a
\* generated batch: inside the first chunk, and in the second chunk
DupSame == 50
DupOther == 150

(* ------------------------------ values --------------------------------- *)

IntV(n) == [t |-> "int", v |-> n]
StrV(k) == [t |-> "str", v |-> k]
FloatV(n) == [t |-> "float", v |-> n]
BoolV(n) == [t |-> "bool", v |-> n]
NoneV == [t |-> "NoneType", v |-> 0]

\* python's type(x) is int / is str
IsInt(x) == x.t = "int"
IsStr(x) == x.t = "str"
\* python orders int, float and bool values among themselves; comparing a
\* str or None with an int raises TypeError
IsNumber(x) == x.t \in {"int", "float", "bool"}

OK == 200
CREATED == 201
BAD_REQUEST == 400
NOT_FOUND == 404
CONFLICT == 409
INTERNAL_ERROR == 500

required_fields ==
    <<"Ensemble_Gene_ID", "Chromosome_Name", "Band", "Gene_Start", "Gene_End">>

RequiredSet == {required_fields[i] : i \in 1..Len(required_fields)}

OptionalSet == {"Strand", "Associated_Gene_Name"}

bulks_size == 100

\* dict.get(key): the value, or None when the key is absent
Get(data, key) == IF key \in DOMAIN data THEN data[key] ELSE NoneV

(* ------------------------------ storage -------------------------------- *)

\* The Genes table is a function from the stored ensembl_gene_id values to
\* their rows (ensembl_gene_id is the table's key).  A world is the table
\* together with the storage calls the running request has made so far.
EmptyStore == [i \in {} |-> NoneV]

NewWorld(g) == [genes |-> g, log |-> <<>>]

\* The request's f-th storage call raises (f = 0: none does).
Faulty(w, f) == f # 0 /\ Len(w.log) + 1 = f

Logged(w, g, fn, id, rows, ok) ==
    [genes |-> g,
     log |-> Append(w.log, [fn |-> fn, id |-> id, rows |-> rows, ok |-> ok])]

\* mutant of RowOf: the start and end arguments change places
RowOf_Swapped(data) ==
    [chromosome_name |-> data["Chromosome_Name"],
     band |-> data["Band"],
     gene_start |-> data["Gene_End"],
     gene_end |-> data["Gene_Start"],
     strand |-> Get(data, "Strand"),
     associated_gene_name |-> Get(data, "Associated_Gene_Name")]

\* the column values of one INSERT / UPDATE, optional ones through dict.get
RowOf(data) ==
    [chromosome_name |-> data["Chromosome_Name"],
     band |-> data["Band"],
     gene_start |-> data["Gene_Start"],
     gene_end |-> data["Gene_End"],
     strand |-> Get(data, "Strand"),
     associated_gene_name |-> Get(data, "Associated_Gene_Name")]

TupleOf(data) == [id |-> data["Ensemble_Gene_ID"], row |-> RowOf(data)]

check_gene_exists(w, f, id) ==
    IF Faulty(w, f)
    THEN [w |-> Logged(w, w.genes, "check_gene_exists", id, <<>>, FALSE),
          exc |-> "sqlite3.Error", ret |-> FALSE]
    ELSE [w |-> Logged(w, w.genes, "check_gene_exists", id, <<>>, TRUE),
          exc |-> "", ret |-> id \in DOMAIN w.genes]

\* mutant of InsertRow: the table has no key, the row goes in beside or over
\* the stored one
InsertRow_NoKey(g, tuple) == [ok |-> TRUE, genes |-> (tuple.id :> tuple.row) @@ g]

\* INSERT of one row: the key constraint refuses a stored id
InsertRow(g, tuple) ==
    IF tuple.id \in DOMAIN g
    THEN [ok |-> FALSE, genes |-> g]
    ELSE [ok |-> TRUE, genes |-> (tuple.id :> tuple.row) @@ g]

insert_new_gene(w, f, tuple) ==
    LET r == InsertRow(w.genes, tuple)
        ok == ~Faulty(w, f) /\ r.ok
    IN [w |-> Logged(w, IF ok THEN r.genes ELSE w.genes,
                     "insert_new_gene", tuple.id, <<tuple>>, ok),
        exc |-> IF ok THEN "" ELSE "sqlite3.Error"]

\* cursor.executemany: the rows lo..hi are inserted in order inside one
\* transaction, up to the first one that is refused (the range is split in
\* halves, the left half first)
RECURSIVE ExecuteMany(_, _, _, _)
ExecuteMany(acc, tuples, lo, hi) ==
    IF lo > hi \/ ~acc.ok THEN acc
    ELSE IF lo = hi THEN InsertRow(acc.genes, tuples[lo])
    ELSE LET mid == (lo + hi) \div 2
         IN ExecuteMany(ExecuteMany(acc, tuples, lo, mid), tuples, mid + 1, hi)

\* mutant of insert_bulk_new_genes: the rows that went in before the failure
\* stay stored
insert_bulk_new_genes_NoRollback(w, f, genes_data) ==
    LET gene_tuples == [i \in 1..Len(genes_data) |-> TupleOf(genes_data[i])]
        r == ExecuteMany([ok |-> TRUE, genes |-> w.genes], gene_tuples,
                         1, Len(gene_tuples))
        ok == ~Faulty(w, f) /\ r.ok
    IN [w |-> Logged(w, r.genes,
                     "insert_bulk_new_genes", NoneV, gene_tuples, ok),
        exc |-> IF ok THEN "" ELSE "sqlite3.Error"]

\* the transaction is committed only when every row went in; the exception of
\* a refused row leaves the connection uncommitted and nothing is stored
insert_bulk_new_genes(w, f, genes_data) ==
    LET gene_tuples == [i \in 1..Len(genes_data) |-> TupleOf(genes_data[i])]
        r == ExecuteMany([ok |-> TRUE, genes |-> w.genes], gene_tuples,
                         1, Len(gene_tuples))
        ok == ~Faulty(w, f) /\ r.ok
    IN [w |-> Logged(w, IF ok THEN r.genes ELSE w.genes,
                     "insert_bulk_new_genes", NoneV, gene_tuples, ok),
        exc |-> IF ok THEN "" ELSE "sqlite3.Error"]

\* mutant of delete_gene: the DELETE has no WHERE clause
delete_gene_Everything(w, f, id) ==
    LET ok == ~Faulty(w, f)
        g == IF ok THEN EmptyStore ELSE w.genes
    IN [w |-> Logged(w, g, "delete_gene", id, <<>>, ok),
        exc |-> IF ok THEN "" ELSE "sqlite3.Error"]

delete_gene(w, f, id) ==
    LET ok == ~Faulty(w, f)
        g == IF ok THEN [i \in DOMAIN w.genes \ {id} |-> w.genes[i]] ELSE w.genes
    IN [w |-> Logged(w, g, "delete_gene", id, <<>>, ok),
        exc |-> IF ok THEN "" ELSE "sqlite3.Error"]

\* mutant of update_gene: a column whose new value is None keeps its old value
update_gene_KeepNull(w, f, tuple) ==
    LET ok == ~Faulty(w, f)
        old == w.genes[tuple.id]
        g == IF ok /\ tuple.id \in DOMAIN w.genes
             THEN [w.genes EXCEPT ![tuple.id] =
                      [c \in DOMAIN tuple.row |->
                          IF tuple.row[c] = NoneV THEN old[c] ELSE tuple.row[c]]]
             ELSE w.genes
    IN [w |-> Logged(w, g, "update_gene", tuple.id, <<tuple>>, ok),
        exc |-> IF ok THEN "" ELSE "sqlite3.Error"]

\* UPDATE ... WHERE ensembl_gene_id = ?: every column but the key is set; a
\* key that matches no row updates nothing and is no error
update_gene(w, f, tuple) ==
    LET ok == ~Faulty(w, f)
        g == IF ok /\ tuple.id \in DOMAIN w.genes
             THEN [w.genes EXCEPT ![tuple.id] = tuple.row] ELSE w.genes
    IN [w |-> Logged(w, g, "update_gene", tuple.id, <<tuple>>, ok),
        exc |-> IF ok THEN "" ELSE "sqlite3.Error"]

(* ----------------------------- validator ------------------------------- *)

\* tp7.py line 76: data["Gene_Start"] is read first, data["Gene_End"] only
\* when the first operand of the "or" is false
TypeTest(data) ==
    IF "Gene_Start" \notin DOMAIN data THEN [exc |-> "KeyError", val |-> FALSE]
    ELSE IF ~IsInt(data["Gene_Start"]) THEN [exc |-> "", val |-> TRUE]
    ELSE IF "Gene_End" \notin DOMAIN data THEN [exc |-> "KeyError", val |-> FALSE]
    ELSE [exc |-> "", val |-> ~IsInt(data["Gene_End"])]

\* tp7.py line 79: start < 0 or end < 0 or start > end, evaluated left to
\* right; ordering a str or None against an int raises TypeError
RangeTest(data) ==
    IF "Gene_Start" \notin DOMAIN data THEN [exc |-> "KeyError", val |-> FALSE]
    ELSE IF ~IsNumber(data["Gene_Start"]) THEN [exc |-> "TypeError", val |-> FALSE]
    ELSE IF data["Gene_Start"].v < 0 THEN [exc |-> "", val |-> TRUE]
    ELSE IF "Gene_End" \notin DOMAIN data THEN [exc |-> "KeyError", val |-> FALSE]
    ELSE IF ~IsNumber(data["Gene_End"]) THEN [exc |-> "TypeError", val |-> FALSE]
    ELSE [exc |-> "",
          val |-> data["Gene_End"].v < 0
                  \/ data["Gene_Start"].v > data["Gene_End"].v]

\* tp7.py line 73
MissingFields(data) == {i \in 1..Len(required_fields) : required_fields[i] \notin DOMAIN data}

\* mutant of TooManyFields: the guard allows one key more
TooManyFields_OneMore(data) == Cardinality(DOMAIN data) > Len(required_fields) + 3

\* tp7.py line 88
TooManyFields(data) == Cardinality(DOMAIN data) > Len(required_fields) + 2

\* tp7.py lines 69-89: the shape, type and range checks; each failed check
\* sets the code to 400 and the next check still runs
ShapeChecks(data) ==
    LET c73 == IF Cardinality(MissingFields(data)) > 0 THEN BAD_REQUEST ELSE CREATED
        t76 == TypeTest(data)
        c76 == IF t76.val THEN BAD_REQUEST ELSE c73
        t79 == RangeTest(data)
        c79 == IF t79.val THEN BAD_REQUEST ELSE c76
        c82 == IF "Strand" \in DOMAIN data /\ ~IsInt(data["Strand"])
               THEN BAD_REQUEST ELSE c79
        c85 == IF "Associated_Gene_Name" \in DOMAIN data
                  /\ ~IsStr(data["Associated_Gene_Name"])
               THEN BAD_REQUEST ELSE c82
        c88 == IF TooManyFields(data) THEN BAD_REQUEST ELSE c85
    IN IF t76.exc # "" THEN [exc |-> t76.exc, code |-> 0]
       ELSE IF t79.exc # "" THEN [exc |-> t79.exc, code |-> 0]
       ELSE [exc |-> "", code |-> c88]

\* mutant of ExistenceCode: the result of the existence check is dropped
ExistenceCode_Dropped(exists, code) == code

\* tp7.py line 91: the existence check replaces any earlier code by 409
ExistenceCode(exists, code) == IF exists THEN CONFLICT ELSE code

verification_data_gene(w, f, data) ==
    LET s == ShapeChecks(data)
    IN IF s.exc # "" THEN [w |-> w, exc |-> s.exc, ret |-> 0]
       ELSE IF "Ensemble_Gene_ID" \notin DOMAIN data
       THEN [w |-> w, exc |-> "KeyError", ret |-> 0]
       ELSE LET e == check_gene_exists(w, f, data["Ensemble_Gene_ID"])
            IN IF e.exc # "" THEN [w |-> e.w, exc |-> e.exc, ret |-> 0]
               ELSE [w |-> e.w, exc |-> "", ret |-> ExistenceCode(e.ret, s.code)]

(* ---------------------------- orchestrator ----------------------------- *)

Raised(w, exc) == [w |-> w, exc |-> exc, code |-> 0]
Returned(w, code) == [w |-> w, exc |-> "", code |-> code]

\* the arguments of insert_new_gene / update_gene are built inside the try:
\* a required key that is absent raises KeyError there
HasArguments(data) == RequiredSet \subseteq DOMAIN data

\* tp7.py lines 110-124
CreateSingle(w, f, data) ==
    LET v == verification_data_gene(w, f, data)
    IN IF v.exc # "" THEN Raised(v.w, v.exc)
       ELSE IF v.ret = CREATED
       THEN IF ~HasArguments(data) THEN Returned(v.w, INTERNAL_ERROR)
            ELSE LET r == insert_new_gene(v.w, f, TupleOf(data))
                 IN Returned(r.w, IF r.exc # "" THEN INTERNAL_ERROR ELSE v.ret)
       ELSE Returned(v.w, v.ret)

\* mutant of ValidateItem: a record whose id an accepted record of the batch
\* already carries is answered 409
ValidateItem_SeesBatch(acc, f, data, i) ==
    LET v == verification_data_gene(acc.w, f, data[i])
        seen == {acc.bulk[x]["Ensemble_Gene_ID"] : x \in 1..Len(acc.bulk)}
    IN IF v.exc # ""
       THEN [w |-> v.w, exc |-> v.exc, code |-> 0, bulk |-> acc.bulk, done |-> TRUE]
       ELSE IF v.ret # CREATED
       THEN [w |-> v.w, exc |-> "", code |-> v.ret, bulk |-> acc.bulk, done |-> TRUE]
       ELSE IF data[i]["Ensemble_Gene_ID"] \in seen
       THEN [w |-> v.w, exc |-> "", code |-> CONFLICT, bulk |-> acc.bulk, done |-> TRUE]
       ELSE [w |-> v.w, exc |-> "", code |-> acc.code,
             bulk |-> Append(acc.bulk, data[i]), done |-> FALSE]

\* tp7.py lines 138-145: the records are validated in order up to the first
\* one that is not accepted; the accepted ones before it are kept in bulk
\* one turn of the loop of line 140, on the record data[i]
ValidateItem(acc, f, data, i) ==
    LET v == verification_data_gene(acc.w, f, data[i])
    IN IF v.exc # ""
       THEN [w |-> v.w, exc |-> v.exc, code |-> 0, bulk |-> acc.bulk, done |-> TRUE]
       ELSE IF v.ret # CREATED
       THEN [w |-> v.w, exc |-> "", code |-> v.ret, bulk |-> acc.bulk, done |-> TRUE]
       ELSE [w |-> v.w, exc |-> "", code |-> acc.code,
             bulk |-> Append(acc.bulk, data[i]), done |-> FALSE]

\* the turns lo..hi in order, none after the loop is left (the range is split
\* in halves, the left half first)
RECURSIVE ValidateBatch(_, _, _, _, _)
ValidateBatch(acc, f, data, lo, hi) ==
    IF lo > hi \/ acc.done THEN acc
    ELSE IF lo = hi THEN ValidateItem(acc, f, data, lo)
    ELSE LET mid == (lo + hi) \div 2
         IN ValidateBatch(ValidateBatch(acc, f, data, lo, mid), f, data, mid + 1, hi)

Min(a, b) == IF a < b THEN a ELSE b

\* mutant of Chunk: the slice stops one record early
Chunk_Short(bulk, i) == SubSeq(bulk, i + 1, Min(i + bulks_size - 1, Len(bulk)))

\* bulk[i:i+bulks_size], i counted from 0
Chunk(bulk, i) == SubSeq(bulk, i + 1, Min(i + bulks_size, Len(bulk)))

\* tp7.py lines 146-153: for i in range(0, len(bulk), bulks_size)
RECURSIVE InsertChunks(_, _, _, _, _)
InsertChunks(w, f, bulk, i, code) ==
    IF i >= Len(bulk) THEN Returned(w, code)
    ELSE LET r == insert_bulk_new_genes(w, f, Chunk(bulk, i))
         IN IF r.exc # "" THEN Returned(r.w, INTERNAL_ERROR)
            ELSE InsertChunks(r.w, f, bulk, i + bulks_size, code)

\* tp7.py lines 125-153
CreateBulk(w, f, data) ==
    LET b == ValidateBatch([w |-> w, exc |-> "", code |-> CREATED,
                            bulk |-> <<>>, done |-> FALSE], f, data, 1, Len(data))
    IN IF b.exc # "" THEN Raised(b.w, b.exc)
       ELSE InsertChunks(b.w, f, b.bulk, 0, b.code)

\* tp7.py lines 155-166
Delete(w, f, data) ==
    IF "Ensemble_Gene_ID" \notin DOMAIN data THEN Raised(w, "KeyError")
    ELSE LET e == check_gene_exists(w, f, data["Ensemble_Gene_ID"])
         IN IF e.exc # "" THEN Raised(e.w, e.exc)
            ELSE IF ~e.ret THEN Returned(e.w, OK)
            ELSE Returned(delete_gene(e.w, f, data["Ensemble_Gene_ID"]).w, OK)

\* tp7.py lines 171-176
UpdateCode(ret, gene_id, data) ==
    LET c172 == IF gene_id # data["Ensemble_Gene_ID"] THEN BAD_REQUEST ELSE ret
    IN IF c172 \in {CREATED, CONFLICT}
       THEN (IF c172 = CONFLICT THEN OK ELSE CREATED)
       ELSE c172

\* tp7.py lines 169-205
Update(w, f, data, gene_id) ==
    LET v == verification_data_gene(w, f, data)
    IN IF v.exc # "" THEN Raised(v.w, v.exc)
       ELSE LET c == UpdateCode(v.ret, gene_id, data)
            IN IF c = CREATED
               THEN IF ~HasArguments(data) THEN Returned(v.w, INTERNAL_ERROR)
                    ELSE LET r == insert_new_gene(v.w, f, TupleOf(data))
                         IN Returned(r.w, IF r.exc # "" THEN INTERNAL_ERROR ELSE c)
               ELSE IF c = OK
               THEN IF ~HasArguments(data) THEN Returned(v.w, INTERNAL_ERROR)
                    ELSE LET r == update_gene(v.w, f, TupleOf(data))
                         IN Returned(r.w, IF r.exc # "" THEN INTERNAL_ERROR ELSE c)
               ELSE Returned(v.w, c)

\* tp7.py lines 96-212; a dict is passed as the one-element sequence of
\* items with isList FALSE
edition_gene(w, f, mode, isList, items, gene_id) ==
    IF mode = "new" /\ ~isList THEN CreateSingle(w, f, items[1])
    ELSE IF mode = "new" /\ isList THEN CreateBulk(w, f, items)
    ELSE IF mode = "delete" THEN Delete(w, f, items[1])
    ELSE IF mode = "update" THEN Update(w, f, items[1], gene_id)
    ELSE Returned(w, BAD_REQUEST)

(* ------------------------------- API ----------------------------------- *)

\* math.ceil(n / 100)
CeilDiv(n, d) == IF n % d = 0 THEN n \div d ELSE n \div d + 1

NoHttp == [status |-> 0, bulks_count |-> 0]

\* tp4.py lines 412-431: the POST branch; an exception that escapes
\* edition_gene is answered 500 by the framework
PostResponse(r, isList, items) ==
    IF r.exc # "" THEN [status |-> INTERNAL_ERROR, bulks_count |-> 0]
    ELSE IF r.code = CREATED
    THEN [status |-> CREATED,
          bulks_count |-> IF isList THEN CeilDiv(Len(items), 100) ELSE 0]
    ELSE IF r.code \in {BAD_REQUEST, CONFLICT}
    THEN [status |-> r.code, bulks_count |-> 0]
    ELSE [status |-> INTERNAL_ERROR, bulks_count |-> 0]

\* tp4.py lines 433-445: the DELETE branch
DeleteResponse(r) ==
    IF r.exc # "" THEN [status |-> INTERNAL_ERROR, bulks_count |-> 0]
    ELSE IF r.code \in {OK, BAD_REQUEST, NOT_FOUND}
    THEN [status |-> r.code, bulks_count |-> 0]
    ELSE [status |-> INTERNAL_ERROR, bulks_count |-> 0]

(* ------------------------------ payloads ------------------------------- *)

Ids == 1..NumIds
Coords == -1..MaxCoord

IdV(i) == StrV(i)
ChromV(k) == StrV(1000 + k)
BandV(k) == StrV(2000 + k)
NameV(k) == StrV(3000 + k)

\* a payload with exactly the five required keys
GeneV(i, k, sv, ev) ==
    [key \in RequiredSet |->
        CASE key = "Ensemble_Gene_ID" -> IdV(i)
          [] key = "Chromosome_Name" -> ChromV(k)
          [] key = "Band" -> BandV(k)
          [] key = "Gene_Start" -> sv
          [] OTHER -> ev]

Gene(i, k, s, e) == GeneV(i, k, IntV(s), IntV(e))

Without(data, key) == [x \in DOMAIN data \ {key} |-> data[x]]

ExtraKeys == <<"Extra_1", "Extra_2", "Extra_3", "Extra_4", "Extra_5">>

Extras(j) == [key \in {ExtraKeys[x] : x \in 1..j} |-> IntV(0)]

\* every assignment of an int or a str to some of the optional keys
OptionalDicts ==
    UNION {[ks -> {IntV(1), NameV(1)}] : ks \in SUBSET OptionalSet}

BothOptional == ("Strand" :> IntV(1)) @@ ("Associated_Gene_Name" :> NameV(1))

NonInts == {StrV(0), NoneV, FloatV(1), BoolV(1)}

CoordPayloads == {Gene(1, 1, s, e) : s \in Coords, e \in Coords}
VariantPayloads ==
    {Gene(i, k, 0, 1) : i \in Ids, k \in 1..NumVariants}
    \cup {Gene(i, 1, 1, 0) : i \in Ids}
OptionalPayloads == {o @@ Gene(1, 1, 0, 1) : o \in OptionalDicts}
MissingPayloads == {Without(Gene(1, 1, 0, 1), key) : key \in RequiredSet}
NonIntPayloads ==
    {GeneV(1, 1, sv, IntV(1)) : sv \in NonInts}
    \cup {GeneV(1, 1, IntV(0), ev) : ev \in NonInts}
    \cup {GeneV(1, 1, IntV(-1), StrV(0)),
          Without(GeneV(1, 1, FloatV(-1), IntV(1)), "Gene_End")}
ExtraPayloads ==
    {Extras(j) @@ Gene(1, 1, 0, 1) : j \in 1..MaxExtra}
    \cup {Extras(j) @@ BothOptional @@ Gene(1, 1, 0, 1) : j \in 1..MaxExtra}

Payloads ==
    CoordPayloads \cup VariantPayloads \cup OptionalPayloads
    \cup MissingPayloads \cup NonIntPayloads \cup ExtraPayloads

BatchPayloads ==
    {Gene(i, 1, 0, 1) : i \in Ids}
    \cup {Gene(1, 1, 1, 0), Without(Gene(1, 1, 0, 1), "Gene_Start")}

Batches == UNION {[1..n -> BatchPayloads] : n \in 0..MaxBatchLen}

IdDict(i) == ("Ensemble_Gene_ID" :> IdV(i))

\* the generated batch: n records with ids of their own, all well-formed but
\* the one at position bad (if any), whose start exceeds its end; the record
\* at position dup (if any) carries the id of the first record, with other
\* texts
GenBatch(n, bad, dup) ==
    [i \in 1..n |-> IF i = bad THEN Gene(NumIds + i, 1, 1, 0)
                    ELSE IF i = dup THEN Gene(NumIds + 1, 2, 0, 1)
                    ELSE Gene(NumIds + i, 1, 0, 1)]

(* --------------------------- state machine ----------------------------- *)

NoOp == [mode |-> "none", isList |-> FALSE, items |-> <<>>,
         gene_id |-> NoneV, fault |-> 0]

InitialStores == {EmptyStore, IdV(1) :> RowOf(Gene(1, 1, 0, 1))}

\* no call is under way step by step
NoProcs == <<>>

Init ==
    /\ genes \in InitialStores
    /\ prev = genes
    /\ op = NoOp
    /\ resp = [code |-> 0, exc |-> ""]
    /\ log = <<>>
    /\ http = NoHttp
    /\ last = <<>>
    /\ transcripts = {}
    /\ procs = NoProcs

\* One call edition_gene(mode, data, gene_id) run to completion, its f-th
\* storage call failing, made when the call before it has returned.  prev,
\* op, resp, log and http record the call while it is the current one; last
\* holds the payload of the call before it when that call was a create-single
\* that returned 201 or a delete that returned 200 with no storage call
\* failing, and <<>> otherwise.  No call touches the Transcripts table.
Request(mode, isList, items, gene_id, f, viaApi) ==
    \E r \in {edition_gene(NewWorld(genes), f, mode, isList, items, gene_id)} :
       /\ f <= Len(r.w.log)
       /\ genes' = r.w.genes
       /\ prev' = genes
       /\ op' = [mode |-> mode, isList |-> isList, items |-> items,
                 gene_id |-> gene_id, fault |-> f]
       /\ resp' = [code |-> r.code, exc |-> r.exc]
       /\ log' = r.w.log
       /\ http' = IF ~viaApi THEN NoHttp
                  ELSE IF mode = "new" THEN PostResponse(r, isList, items)
                  ELSE DeleteResponse(r)
       /\ UNCHANGED <<last, transcripts, procs>>

\* The call has returned: what it recorded is dropped.
EndRequest ==
    /\ op # NoOp
    /\ last' = IF \/ /\ op.mode = "new" /\ ~op.isList
                     /\ resp = [code |-> CREATED, exc |-> ""]
                  \/ /\ op.mode = "delete" /\ op.fault = 0
                     /\ resp = [code |-> OK, exc |-> ""]
               THEN op.items ELSE <<>>
    /\ prev' = genes
    /\ op' = NoOp
    /\ resp' = [code |-> 0, exc |-> ""]
    /\ log' = <<>>
    /\ http' = NoHttp
    /\ UNCHANGED <<genes, transcripts, procs>>

PostGene ==
    /\ op = NoOp
    /\ \E d \in Payloads, f \in 0..MaxFault :
          Request("new", FALSE, <<d>>, NoneV, f, TRUE)

PostGenes ==
    /\ op = NoOp
    /\ \E b \in Batches, f \in 0..MaxFault :
          Request("new", TRUE, b, NoneV, f, TRUE)

DeleteGene ==
    /\ op = NoOp
    /\ \E i \in Ids, f \in 0..MaxFault :
          Request("delete", FALSE, <<IdDict(i)>>, NoneV, f, TRUE)

UpdateGene ==
    /\ op = NoOp
    /\ \E d \in Payloads, i \in Ids, f \in 0..MaxFault :
          Request("update", FALSE, <<d>>, IdV(i), f, FALSE)

OtherMode ==
    /\ op = NoOp
    /\ \E i \in Ids : Request("other", FALSE, <<IdDict(i)>>, NoneV, 0, FALSE)

Next ==
    PostGene \/ PostGenes \/ DeleteGene \/ UpdateGene \/ OtherMode \/ EndRequest

Spec == Init /\ [][Next]_vars

\* One generated batch posted to a store that holds none of its ids; its
\* cf-th bulk insert fails, or one of its records repeats the id of the first.
PostGeneratedBatch ==
    \E n \in 1..MaxBulkLen, bad \in {0, BadAt}, cf \in 0..MaxChunkFault,
       dup \in {0, DupSame, DupOther} :
        /\ op = NoOp
        /\ DOMAIN genes = {}
        /\ bad <= n
        /\ dup <= n
        /\ dup # 0 => bad = 0 /\ cf = 0
        /\ \E b \in {GenBatch(n, bad, dup)} :
              Request("new", TRUE, b, NoneV,
                      IF cf = 0 THEN 0 ELSE (IF bad = 0 THEN n ELSE bad) + cf, TRUE)

InitBulk ==
    /\ genes = EmptyStore
    /\ prev = genes
    /\ op = NoOp
    /\ resp = [code |-> 0, exc |-> ""]
    /\ log = <<>>
    /\ http = NoHttp
    /\ last = <<>>
    /\ transcripts = {}
    /\ procs = NoProcs

NextBulk == PostGeneratedBatch \/ EndRequest

SpecBulk == InitBulk /\ [][NextBulk]_vars

\* A row of the Transcripts table, as the read paths select it: its own id
\* and the ensembl_gene_id of its gene.
TranscriptV(j) == StrV(4000 + j)

InitialTranscripts ==
    {[ensembl_transcript_id |-> TranscriptV(1), ensembl_gene_id |-> IdV(1)]}

\* The calls of Spec on a store whose gene has a transcript.  The connection
\* is opened without PRAGMA foreign_keys, so SQLite neither checks nor
\* cascades the reference of a transcript to its gene.
InitOwned ==
    /\ genes = IdV(1) :> RowOf(Gene(1, 1, 0, 1))
    /\ prev = genes
    /\ op = NoOp
    /\ resp = [code |-> 0, exc |-> ""]
    /\ log = <<>>
    /\ http = NoHttp
    /\ last = <<>>
    /\ transcripts = InitialTranscripts
    /\ procs = NoProcs

SpecOwned == InitOwned /\ [][Next]_vars

(* ------------------------- interleaved calls --------------------------- *)

\* Calls of edition_gene made by requests that the server runs in parallel.
\* Every storage call opens its own connection, runs one statement and
\* commits, so a call is seen by the others as two steps at most: the
\* existence check (with the validation around it) and the write.  procs[p]
\* is the call of request p: where it stands (pc), its arguments, its
\* resp_code so far (code), the exception that left it (exc), whether its
\* existence check let it through to a write (passed) and whether its UPDATE
\* or DELETE matched a stored row (matched).
Procs == 1..NumProcs

Idle == [pc |-> "idle", mode |-> "none", data |-> IdDict(1), gene_id |-> NoneV,
         code |-> 0, exc |-> "", passed |-> FALSE, matched |-> FALSE]

ConcPayloads ==
    {Gene(i, k, 0, 1) : i \in Ids, k \in 1..NumVariants} \cup {Gene(1, 1, 1, 0)}

\* tp7.py lines 111, 157 and 170-176: the call up to its existence check;
\* pc is "checked" when a write is to follow
CheckStep(g, mode, data, gene_id) ==
    IF mode = "delete"
    THEN LET e == check_gene_exists(NewWorld(g), 0, data["Ensemble_Gene_ID"])
         IN [pc |-> IF e.ret THEN "checked" ELSE "done", code |-> OK, exc |-> e.exc]
    ELSE LET v == verification_data_gene(NewWorld(g), 0, data)
             c == IF mode = "update" THEN UpdateCode(v.ret, gene_id, data) ELSE v.ret
         IN IF v.exc # "" THEN [pc |-> "done", code |-> 0, exc |-> v.exc]
            ELSE [pc |-> IF c = CREATED \/ (mode = "update" /\ c = OK)
                         THEN "checked" ELSE "done",
                  code |-> c, exc |-> ""]

\* tp7.py lines 113-124, 161-166 and 179-205: the write of a call that has
\* passed its existence check with resp_code code
WriteStep(g, mode, data, code) ==
    IF mode = "delete"
    THEN [genes |-> delete_gene(NewWorld(g), 0, data["Ensemble_Gene_ID"]).w.genes,
          code |-> OK, matched |-> data["Ensemble_Gene_ID"] \in DOMAIN g]
    ELSE IF ~HasArguments(data)
    THEN [genes |-> g, code |-> INTERNAL_ERROR, matched |-> FALSE]
    ELSE IF code = CREATED
    THEN LET r == insert_new_gene(NewWorld(g), 0, TupleOf(data))
         IN [genes |-> r.w.genes,
             code |-> IF r.exc # "" THEN INTERNAL_ERROR ELSE code,
             matched |-> FALSE]
    ELSE LET r == update_gene(NewWorld(g), 0, TupleOf(data))
         IN [genes |-> r.w.genes,
             code |-> IF r.exc # "" THEN INTERNAL_ERROR ELSE code,
             matched |-> data["Ensemble_Gene_ID"] \in DOMAIN g]

\* request p enters edition_gene and runs it up to its existence check
Begin(p, mode, data, gene_id) ==
    /\ \E c \in {CheckStep(genes, mode, data, gene_id)} :
          procs' = [procs EXCEPT ![p] =
                       [pc |-> c.pc, mode |-> mode, data |-> data,
                        gene_id |-> gene_id, code |-> c.code, exc |-> c.exc,
                        passed |-> c.pc = "checked", matched |-> FALSE]]
    /\ UNCHANGED <<genes, prev, op, resp, log, http, last, transcripts>>

BeginCreate ==
    \E p \in Procs, d \in ConcPayloads :
        /\ procs[p].pc = "idle"
        /\ Begin(p, "new", d, NoneV)

BeginUpdate ==
    \E p \in Procs, d \in ConcPayloads, i \in Ids :
        /\ procs[p].pc = "idle"
        /\ Begin(p, "update", d, IdV(i))

BeginDelete ==
    \E p \in Procs, i \in Ids :
        /\ procs[p].pc = "idle"
        /\ Begin(p, "delete", IdDict(i), NoneV)

\* request p makes its write and returns
Write ==
    \E p \in Procs :
        /\ procs[p].pc = "checked"
        /\ \E r \in {WriteStep(genes, procs[p].mode, procs[p].data, procs[p].code)} :
              /\ genes' = r.genes
              /\ procs' = [procs EXCEPT ![p].pc = "done", ![p].code = r.code,
                                         ![p].matched = r.matched]
        /\ UNCHANGED <<prev, op, resp, log, http, last, transcripts>>

InitConc ==
    /\ genes \in InitialStores
    /\ prev = genes
    /\ op = NoOp
    /\ resp = [code |-> 0, exc |-> ""]
    /\ log = <<>>
    /\ http = NoHttp
    /\ last = <<>>
    /\ transcripts = {}
    /\ procs = [p \in Procs |-> Idle]

NextConc == BeginCreate \/ BeginUpdate \/ BeginDelete \/ Write

SpecConc == InitConc /\ [][NextConc]_vars

(* ------------------------ vocabulary of the claims --------------------- *)

IsCreateSingle == op.mode = "new" /\ ~op.isList
IsCreateBulk == op.mode = "new" /\ op.isList
IsUpdate == op.mode = "update"

\* the payload of the current single-record call
Data == op.items[1]

\* the storage calls of the current call that are not existence checks
WriteCalls == {i \in 1..Len(log) : log[i].fn # "check_gene_exists"}

CallsOf(fn) == {i \in 1..Len(log) : log[i].fn = fn}

\* the record has its five required fields
Complete(d) == RequiredSet \subseteq DOMAIN d

\* the record passes the shape, type and range rules 1-6 of the validator
WellFormed(d) ==
    /\ Complete(d)
    /\ d["Gene_Start"].t = "int" /\ d["Gene_End"].t = "int"
    /\ d["Gene_Start"].v >= 0 /\ d["Gene_End"].v >= 0
    /\ d["Gene_Start"].v <= d["Gene_End"].v
    /\ ("Strand" \in DOMAIN d => d["Strand"].t = "int")
    /\ ("Associated_Gene_Name" \in DOMAIN d => d["Associated_Gene_Name"].t = "str")
    /\ DOMAIN d \subseteq RequiredSet \cup OptionalSet

\* the record is rejected by the rules 1-6 with a code (none of them raises)
Malformed(d) == ShapeChecks(d).exc = "" /\ ShapeChecks(d).code = BAD_REQUEST

Stored(g, d) == "Ensemble_Gene_ID" \in DOMAIN d /\ d["Ensemble_Gene_ID"] \in DOMAIN g

\* what validating d against the store g answers when no storage call fails
Outcome(g, d) == verification_data_gene(NewWorld(g), 0, d)

Accepted(g, d) == Outcome(g, d).exc = "" /\ Outcome(g, d).ret = CREATED

Rejected(g, d) == Outcome(g, d).exc = "" /\ Outcome(g, d).ret \in {BAD_REQUEST, CONFLICT}

\* i is the first record of the batch that validation does not accept
IsFirstRefused(g, items, i) ==
    ~Accepted(g, items[i]) /\ \A j \in 1..(i - 1) : Accepted(g, items[j])

FirstRefused(g, items) == CHOOSE i \in 1..Len(items) : IsFirstRefused(g, items, i)

\* the batch's first refused record is rejected with a code
SomeRefused(g, items) ==
    \E i \in 1..Len(items) : IsFirstRefused(g, items, i) /\ Rejected(g, items[i])

(* ------------------------------- claims -------------------------------- *)

\* C1 (as claimed): a create-bulk whose first refused record is rejected with
\* 400 or 409 returns that record's code and stores nothing: the Genes
\* collection after the call equals the collection before it.
C1_BulkAllOrNothing ==
    (IsCreateBulk /\ op.fault = 0 /\ SomeRefused(prev, op.items))
    => /\ resp.exc = ""
       /\ resp.code = Outcome(prev, op.items[FirstRefused(prev, op.items)]).ret
       /\ genes = prev
       /\ WriteCalls = {}

\* C2 (as claimed): an update whose record fails one of the checks 1-6 returns
\* BAD_REQUEST and issues neither an insert nor an update, whether or not the
\* gene is stored (stated for the records that hold the five required fields
\* and on which none of the checks raises).
C2_UpdateMalformedRejected ==
    (IsUpdate /\ op.fault = 0 /\ Malformed(Data) /\ Complete(Data))
    => /\ resp.exc = "" /\ resp.code = BAD_REQUEST
       /\ WriteCalls = {}
       /\ genes = prev

\* C3 (as claimed): every stored gene has start >= 0, end >= 0, start <= end.
C3_StoredRangeInvariant ==
    \A id \in DOMAIN genes :
        /\ genes[id].gene_start.v >= 0
        /\ genes[id].gene_end.v >= 0
        /\ genes[id].gene_start.v <= genes[id].gene_end.v

\* C4 (as claimed): validating a record whose start is greater than its end
\* answers BAD_REQUEST, whether or not its gene_id is stored (create-single
\* returns the validator's answer when it is not 201).
C4_StartAfterEndIsBadRequest ==
    (/\ IsCreateSingle /\ op.fault = 0 /\ Complete(Data)
     /\ IsNumber(Data["Gene_Start"]) /\ IsNumber(Data["Gene_End"])
     /\ Data["Gene_Start"].v > Data["Gene_End"].v)
    => resp.exc = "" /\ resp.code = BAD_REQUEST

\* C5 (as claimed): create-single of a record that lacks a required field
\* returns BAD_REQUEST as a code (no exception) and leaves Genes unchanged
\* (stated for the records whose gene_id is not stored).
C5_MissingFieldIsBadRequest ==
    (IsCreateSingle /\ op.fault = 0 /\ ~Complete(Data) /\ ~Stored(prev, Data))
    => resp.exc = "" /\ resp.code = BAD_REQUEST /\ genes = prev

\* C6 (as claimed): validating a complete record whose start or end is not an
\* integer answers the code BAD_REQUEST, never an exception (stated for the
\* records whose gene_id is not stored).
C6_NonIntegerIsBadRequest ==
    (/\ IsCreateSingle /\ op.fault = 0 /\ Complete(Data) /\ ~Stored(prev, Data)
     /\ (~IsInt(Data["Gene_Start"]) \/ ~IsInt(Data["Gene_End"])))
    => resp.exc = "" /\ resp.code = BAD_REQUEST

UnknownKeys(d) == DOMAIN d \ (RequiredSet \cup OptionalSet)

C8_CreateSingleCreates ==
    (IsCreateSingle /\ op.fault = 0 /\ WellFormed(Data) /\ ~Stored(prev, Data))
    => LET id == Data["Ensemble_Gene_ID"]
       IN /\ resp = [code |-> CREATED, exc |-> ""]
          /\ Cardinality(CallsOf("insert_new_gene")) = 1
          /\ WriteCalls = CallsOf("insert_new_gene")
          /\ check_gene_exists(NewWorld(genes), 0, id).ret
          /\ DOMAIN genes = DOMAIN prev \cup {id}
          /\ genes[id].chromosome_name = Data["Chromosome_Name"]
          /\ genes[id].band = Data["Band"]
          /\ genes[id].gene_start = Data["Gene_Start"]
          /\ genes[id].gene_end = Data["Gene_End"]
          /\ genes[id].strand =
                IF "Strand" \in DOMAIN Data THEN Data["Strand"] ELSE NoneV
          /\ genes[id].associated_gene_name =
                IF "Associated_Gene_Name" \in DOMAIN Data
                THEN Data["Associated_Gene_Name"] ELSE NoneV
          /\ \A other \in DOMAIN prev : genes[other] = prev[other]

\* C8 witness: a well-formed record without the optional strand was created
\* beside a gene that was already stored.
C8_Witness ==
    /\ IsCreateSingle /\ op.fault = 0 /\ WellFormed(Data) /\ ~Stored(prev, Data)
    /\ "Strand" \notin DOMAIN Data
    /\ DOMAIN prev # {}
    /\ resp.code = CREATED
    /\ Data["Ensemble_Gene_ID"] \in DOMAIN genes

\* C9: a create-single that repeats the payload of the create-single just
\* before it, which returned 201, returns 409 (no storage call failing); and a
\* create-single that returns 400 or 409 issues no write and leaves the
\* Genes collection as it was.
C9_CreateTwiceConflicts ==
    /\ (IsCreateSingle /\ op.fault = 0 /\ last = op.items)
       => resp = [code |-> CONFLICT, exc |-> ""]
    /\ (IsCreateSingle /\ resp.exc = "" /\ resp.code \in {BAD_REQUEST, CONFLICT})
       => WriteCalls = {} /\ genes = prev

\* C9 witness: the second of two create-single calls with the same payload has
\* returned 409.
C9_Witness ==
    /\ IsCreateSingle /\ op.fault = 0 /\ last = op.items
    /\ resp.code = CONFLICT
    /\ genes = prev

\* ceil(n / 100) as the least k with 100 * k >= n
Batches100(n) == CHOOSE k \in 0..n : 100 * k >= n /\ (k = 0 \/ 100 * (k - 1) < n)

\* C10: a create-bulk of n records that are all well-formed with gene_ids not
\* stored and pairwise distinct, no storage call failing, returns 201, issues
\* exactly ceil(n/100) bulk inserts, the k-th carrying the records
\* 100(k-1)+1 .. min(100k, n) in their order, and the reported batch count is
\* ceil(n/100).
C10_BulkChunks ==
    (/\ IsCreateBulk /\ op.fault = 0
     /\ \A i \in 1..Len(op.items) : WellFormed(op.items[i]) /\ ~Stored(prev, op.items[i])
     /\ \A i, j \in 1..Len(op.items) :
           i # j => op.items[i]["Ensemble_Gene_ID"] # op.items[j]["Ensemble_Gene_ID"])
    => LET n == Len(op.items)
           calls == [k \in 1..Cardinality(WriteCalls) |-> log[n + k]]
       IN /\ resp = [code |-> CREATED, exc |-> ""]
          /\ Len(log) = n + Batches100(n)
          /\ WriteCalls = (n + 1)..(n + Batches100(n))
          /\ \A k \in 1..Batches100(n) :
                /\ calls[k].fn = "insert_bulk_new_genes"
                /\ calls[k].ok
                /\ Len(calls[k].rows) = Min(100 * k, n) - 100 * (k - 1)
                /\ \A x \in 1..Len(calls[k].rows) :
                      /\ calls[k].rows[x].id = op.items[100 * (k - 1) + x]["Ensemble_Gene_ID"]
                      /\ calls[k].rows[x].row.gene_end = op.items[100 * (k - 1) + x]["Gene_End"]
          /\ http = [status |-> CREATED, bulks_count |-> Batches100(n)]

\* C10 witness: 250 records went in as chunks of 100, 100 and 50 and the
\* reported batch count is 3.
C10_Witness ==
    /\ IsCreateBulk /\ op.fault = 0 /\ Len(op.items) = 250
    /\ resp.code = CREATED
    /\ Len(log) = 253
    /\ Len(log[251].rows) = 100 /\ Len(log[252].rows) = 100 /\ Len(log[253].rows) = 50
    /\ http.bulks_count = 3

\* the bulk inserts of the current call, as positions of the log
BulkInserts == CallsOf("insert_bulk_new_genes")

\* the gene_ids of the rows of the storage call at position i of the log
ChunkIds(i) == {log[i].rows[x].id : x \in 1..Len(log[i].rows)}

\* every record of the bulk insert at position i of the log is stored as sent
ChunkStored(i) ==
    \A x \in 1..Len(log[i].rows) :
        /\ log[i].rows[x].id \in DOMAIN genes
        /\ genes[log[i].rows[x].id] = log[i].rows[x].row

\* the gene_ids of the rows of the bulk inserts before position k of the log
Earlier(k) == UNION {ChunkIds(j) : j \in {c \in BulkInserts : c < k}}

\* C11: in a create-bulk, when the bulk insert of chunk k fails the call
\* returns 500, the failed insert is the call's last storage call (no later
\* chunk is attempted), no record of chunk k is stored (a gene_id of chunk k
\* that is stored was stored by an earlier chunk), every record of the chunks
\* 1..k-1 is stored as sent, and the collection holds nothing else that it
\* did not hold before.
C11_FailedChunkStopsBulk ==
    \A k \in BulkInserts :
        ~log[k].ok
        => /\ resp = [code |-> INTERNAL_ERROR, exc |-> ""]
           /\ k = Len(log)
           /\ ChunkIds(k) \cap DOMAIN genes \subseteq DOMAIN prev \cup Earlier(k)
           /\ \A j \in BulkInserts : j < k => log[j].ok /\ ChunkStored(j)
           /\ DOMAIN genes =
                 DOMAIN prev \cup Earlier(k)

\* C11 witness: the third bulk insert of a batch of more than 200 records
\* failed; the 200 records of the first two chunks are stored.
C11_Witness ==
    /\ IsCreateBulk /\ Cardinality(BulkInserts) = 3
    /\ ~log[Len(log)].ok /\ log[Len(log)].fn = "insert_bulk_new_genes"
    /\ resp.code = INTERNAL_ERROR
    /\ Cardinality(DOMAIN genes) = 2 * bulks_size

\* C12 (as claimed): an update whose record id differs from the target
\* identifier returns BAD_REQUEST and issues neither an insert nor an update,
\* whatever the record's validity and whether or not either id is stored (no
\* storage call failing).
C12_MismatchedIdIsBadRequest ==
    (/\ IsUpdate /\ op.fault = 0
     /\ "Ensemble_Gene_ID" \in DOMAIN Data
     /\ Data["Ensemble_Gene_ID"] # op.gene_id)
    => /\ resp = [code |-> BAD_REQUEST, exc |-> ""]
       /\ WriteCalls = {}
       /\ genes = prev

\* C13: an update with a well-formed record whose id equals the target id, no
\* storage call failing: when the id is not stored the call issues one insert
\* and returns 201; when it is stored the call issues one UPDATE and returns
\* 200; either way the stored fields of that gene are the payload's (an
\* optional field that is not supplied is stored as None) and every other
\* gene is as it was.
C13_UpdateIsUpsert ==
    (/\ IsUpdate /\ op.fault = 0 /\ WellFormed(Data)
     /\ Data["Ensemble_Gene_ID"] = op.gene_id)
    => LET id == Data["Ensemble_Gene_ID"]
           write == IF id \in DOMAIN prev THEN "update_gene" ELSE "insert_new_gene"
       IN /\ resp = [code |-> IF id \in DOMAIN prev THEN OK ELSE CREATED, exc |-> ""]
          /\ Cardinality(WriteCalls) = 1
          /\ WriteCalls = CallsOf(write)
          /\ DOMAIN genes = DOMAIN prev \cup {id}
          /\ genes[id].chromosome_name = Data["Chromosome_Name"]
          /\ genes[id].band = Data["Band"]
          /\ genes[id].gene_start = Data["Gene_Start"]
          /\ genes[id].gene_end = Data["Gene_End"]
          /\ genes[id].strand =
                IF "Strand" \in DOMAIN Data THEN Data["Strand"] ELSE NoneV
          /\ genes[id].associated_gene_name =
                IF "Associated_Gene_Name" \in DOMAIN Data
                THEN Data["Associated_Gene_Name"] ELSE NoneV
          /\ \A other \in DOMAIN prev \ {id} : genes[other] = prev[other]

\* C13 witness: a stored gene that had a strand was updated with a record
\* that supplies none, beside another stored gene; the answer is 200 and the
\* strand is now None.
C13_Witness ==
    /\ IsUpdate /\ op.fault = 0 /\ WellFormed(Data)
    /\ Data["Ensemble_Gene_ID"] = op.gene_id
    /\ op.gene_id \in DOMAIN prev
    /\ Cardinality(DOMAIN prev) = 2
    /\ prev[op.gene_id].strand # NoneV
    /\ "Strand" \notin DOMAIN Data
    /\ resp.code = OK
    /\ genes[op.gene_id].strand = NoneV

IsDelete == op.mode = "delete"

\* C14: a delete, no storage call failing, returns 200; when the id is stored
\* it issues one DELETE, that gene is gone and every other gene is as it was;
\* when the id is not stored it issues no DELETE and the collection is as it
\* was; so a delete that repeats the delete just before it returns 200 too
\* and leaves the collection as the first one left it.
C14_DeleteIdempotent ==
    (IsDelete /\ op.fault = 0)
    => LET id == Data["Ensemble_Gene_ID"]
       IN /\ resp = [code |-> OK, exc |-> ""]
          /\ id \in DOMAIN prev
             => /\ Cardinality(CallsOf("delete_gene")) = 1
                /\ WriteCalls = CallsOf("delete_gene")
                /\ DOMAIN genes = DOMAIN prev \ {id}
                /\ \A other \in DOMAIN genes : genes[other] = prev[other]
          /\ id \notin DOMAIN prev
             => WriteCalls = {} /\ genes = prev
          /\ last = op.items
             => WriteCalls = {} /\ genes = prev

\* C14 witness: the second of two deletes of the same id has returned 200
\* without a DELETE, another gene being stored all along.
C14_Witness ==
    /\ IsDelete /\ op.fault = 0 /\ last = op.items
    /\ resp.code = OK
    /\ CallsOf("delete_gene") = {}
    /\ genes = prev /\ DOMAIN genes # {}

\* some storage call of the current call has raised
StorageFailed == \E i \in 1..Len(log) : ~log[i].ok

\* C15 (as claimed): whatever storage call of a delete fails, the delete
\* returns 200: it neither returns another code nor lets an exception out.
C15_DeleteNeverSurfacesFailure ==
    (IsDelete /\ StorageFailed) => resp = [code |-> OK, exc |-> ""]

\* C16 (as claimed): in create-single, create-bulk and update, whatever
\* storage call fails (the existence check of the validation as well as the
\* insert, bulk insert or update), the call returns 500 and no exception
\* leaves edition_gene.
C16_StorageFailureIsInternalError ==
    ((IsCreateSingle \/ IsCreateBulk \/ IsUpdate) /\ StorageFailed)
    => resp = [code |-> INTERNAL_ERROR, exc |-> ""]

\* request p is a create-single that has returned
CreateDone(p) == procs[p].mode = "new" /\ procs[p].pc = "done"

\* request p has made its write
HasWritten(p) == procs[p].passed /\ procs[p].pc = "done"

\* C17: when two create-single calls for the same gene_id have both passed
\* the existence check (neither had inserted when the other checked) and both
\* have returned, no other request having written, one has returned 201 and
\* the other 500, no exception has left either, and the gene is stored with
\* the fields of the call that returned 201.
C17_RacingCreatesOneWins ==
    \A p, q \in Procs :
        (/\ p # q /\ CreateDone(p) /\ CreateDone(q)
         /\ procs[p].passed /\ procs[q].passed
         /\ procs[p].data["Ensemble_Gene_ID"] = procs[q].data["Ensemble_Gene_ID"]
         /\ \A r \in Procs \ {p, q} : ~HasWritten(r))
        => /\ {procs[p].code, procs[q].code} = {CREATED, INTERNAL_ERROR}
           /\ procs[p].exc = "" /\ procs[q].exc = ""
           /\ procs[p].data["Ensemble_Gene_ID"] \in DOMAIN genes
           /\ procs[p].code = CREATED
              => genes[procs[p].data["Ensemble_Gene_ID"]] = RowOf(procs[p].data)

\* C17 witness: two create-single calls for one gene_id with different
\* fields both passed the existence check; the first request got 500 and the
\* second 201.
C17_Witness ==
    /\ CreateDone(1) /\ CreateDone(2)
    /\ procs[1].passed /\ procs[2].passed
    /\ procs[1].data["Ensemble_Gene_ID"] = procs[2].data["Ensemble_Gene_ID"]
    /\ procs[1].data # procs[2].data
    /\ procs[1].code = INTERNAL_ERROR /\ procs[2].code = CREATED

\* request p is an update that has returned 200
UpdateReturnedOK(p) ==
    /\ procs[p].mode = "update" /\ procs[p].pc = "done"
    /\ procs[p].exc = "" /\ procs[p].code = OK

\* C20 (as claimed): an update that has returned 200 has made an UPDATE that
\* matched a stored row, whatever the other requests did between its
\* existence check and its UPDATE.
C20_UpdateOKMatchedARow ==
    \A p \in Procs : UpdateReturnedOK(p) => procs[p].matched

\* C18 (as claimed): in every state reached from a store in which each
\* transcript's gene is stored, by any sequence of create, update and delete
\* calls, the gene of every transcript is stored.
C18_TranscriptsOwned ==
    \A t \in transcripts : t.ensembl_gene_id \in DOMAIN genes

\* the positions of the batch whose gene_id an earlier record carries
RepeatedAt(items) ==
    {j \in 1..Len(items) :
        \E i \in 1..(j - 1) : items[i]["Ensemble_Gene_ID"] = items[j]["Ensemble_Gene_ID"]}

\* C19: in a create-bulk of n well-formed records whose gene_ids are not
\* stored, one of which repeats the gene_id of an earlier one, no storage call
\* failing otherwise: all n records pass validation (n existence checks, every
\* one answered), the call returns 500 and not 409, and the bulk insert that
\* fails is the one of the chunk k holding the first repeating record: the
\* records of the chunks before k are stored as sent and nothing else is, so
\* no record of chunk k is stored when the earlier occurrence lies in chunk k
\* too, and the chunk of the earlier occurrence stays stored when it lies
\* before k.
C19_DuplicateFailsAtInsert ==
    (/\ IsCreateBulk /\ op.fault = 0
     /\ RepeatedAt(op.items) # {}
     /\ \A i \in 1..Len(op.items) : WellFormed(op.items[i]) /\ ~Stored(prev, op.items[i]))
    => LET n == Len(op.items)
           j == CHOOSE x \in RepeatedAt(op.items) : \A y \in RepeatedAt(op.items) : x <= y
           k == ((j - 1) \div bulks_size) + 1
           before == 1..(bulks_size * (k - 1))
       IN /\ resp = [code |-> INTERNAL_ERROR, exc |-> ""]
          /\ Len(log) = n + k
          /\ \A i \in 1..n : log[i].fn = "check_gene_exists" /\ log[i].ok
          /\ BulkInserts = (n + 1)..(n + k)
          /\ \A c \in (n + 1)..(n + k - 1) : log[c].ok
          /\ ~log[n + k].ok
          /\ Len(log[n + k].rows) = Min(bulks_size * k, n) - bulks_size * (k - 1)
          /\ DOMAIN genes = DOMAIN prev \cup {op.items[x]["Ensemble_Gene_ID"] : x \in before}
          /\ \A x \in before :
                genes[op.items[x]["Ensemble_Gene_ID"]].band = op.items[x]["Band"]

\* C19 witness: a record of the second chunk repeats the gene_id of the first
\* record of the batch; the call returned 500, the 100 records of the first
\* chunk are stored and the first record's texts are the stored ones.
C19_Witness ==
    /\ IsCreateBulk /\ op.fault = 0 /\ Len(op.items) > 2 * bulks_size
    /\ \E j \in (bulks_size + 1)..(2 * bulks_size) :
          /\ op.items[j]["Ensemble_Gene_ID"] = op.items[1]["Ensemble_Gene_ID"]
          /\ op.items[j]["Band"] # op.items[1]["Band"]
    /\ resp.code = INTERNAL_ERROR
    /\ Cardinality(DOMAIN genes) = bulks_size
    /\ genes[op.items[1]["Ensemble_Gene_ID"]].band = op.items[1]["Band"]
    /\ Cardinality(BulkInserts) = 2

====
